---- MODULE Spec2Model ----
(***************************************************************************)
(* A model of the interaction core of conrod's Button and DropDownList     *)
(* widgets (src/src/button.rs, src/src/drop_down_list.rs): the per-widget  *)
(* state machines, the hit test, the callback dispatch, the calls to the   *)
(* renderer and the identity-indexed state store of the UiContext.         *)
(*                                                                         *)
(* Coordinates are f64 in the source; the model uses non-negative integers *)
(* and exact arithmetic.  Rust indices are 0-based, TLA+ sequences 1-based:*)
(* the model keeps the program's 0-based indices and adds one on access.   *)
(***************************************************************************)
EXTENDS Integers, Sequences, FiniteSets, TLC

VARIABLES
    store,      \* UiContext: UIID -> widget entry (state and last place)
    mouse,      \* UiContext: the mouse snapshot returned by get_mouse_state
    strings,    \* the caller's item list handed to drop_down_list
    selected,   \* the caller's selection slot handed to drop_down_list
    gl,         \* the renderer calls of the most recent draw: the primitive
                \* called, the rectangle state and the label text it is given
    bdraw,      \* the locals of the most recent ButtonContext::draw
    ddraw,      \* the locals of the most recent DropDownListContext::draw
    panicked,   \* TRUE once a draw has panicked (the task is unwinding)
    hist,       \* the most recent button evaluations, oldest first
    pc,         \* the selection scenario: frames done, row to select, callbacks seen
    press       \* what the button evaluations so far say of the press in progress

vars == <<store, mouse, strings, selected, gl, bdraw, ddraw, panicked, hist, pc,
          press>>

----------------------------------------------------------------------------
(* Bounds of the model *)

\* largest number of items in the drop-down's list
MaxLen == 2
\* the mouse position ranges over (0..MaxX) \X (0..MaxY)
MaxX == 1
MaxY == 4
\* number of button evaluations remembered in hist
HistLen == 3

----------------------------------------------------------------------------
(* Values *)

None == << >>
Some(x) == <<x>>
Option(S) == {None} \cup {Some(x) : x \in S}

Down == "Down"
Up == "Up"
ButtonState == {Down, Up}

\* mouse::Mouse, of which the widgets read pos and left
Mouse == [pos : (0..MaxX) \X (0..MaxY), left : ButtonState]

\* rectangle::State
RectNormal == "rectangle::Normal"
RectHighlighted == "rectangle::Highlighted"
RectClicked == "rectangle::Clicked"

\* button::State
Normal == "Normal"
Highlighted == "Highlighted"
Clicked == "Clicked"
State == {Normal, Highlighted, Clicked}

ButtonLabels == {<<"ok">>}

\* the identities the caller gives its widgets
ButtonIds == {1}
DropDownIds == {2}
MoreButtonIds == {3}
UIID == ButtonIds \cup DropDownIds \cup MoreButtonIds

\* the geometry the caller gives the button (positionable, shapeable)
ButtonPositions == {<<0, 0>>}
ButtonDims == {<<2, 2>>}

----------------------------------------------------------------------------
(* rectangle::is_over: containment of the pointer in the widget rectangle  *)

rectangle_is_over(pos, mouse_pos, dim) ==
    /\ mouse_pos[1] > pos[1]
    /\ mouse_pos[2] > pos[2]
    /\ mouse_pos[1] < pos[1] + dim[1]
    /\ mouse_pos[2] < pos[2] + dim[2]

----------------------------------------------------------------------------
(* The state store (widget_fns!) *)

NoWidget == [kind |-> "NoWidget", state |-> None, pos |-> <<0, 0>>, dim |-> <<0, 0>>]

\* a button kind whose initial state is Highlighted
ButtonDefault_highlighted ==
    [kind |-> "Button", state |-> "Highlighted", pos |-> <<0, 0>>, dim |-> <<0, 0>>]

\* Widget::Button(State::Normal)
ButtonDefault == [kind |-> "Button", state |-> Normal, pos |-> <<0, 0>>, dim |-> <<0, 0>>]

\* the store after get_widget(uic, ui_id): an unseen identity gets the default
get_widget(st, ui_id, default) ==
    IF st[ui_id].kind = "NoWidget" THEN [st EXCEPT ![ui_id] = default] ELSE st

get_state(st, ui_id, default) == get_widget(st, ui_id, default)[ui_id].state

set_state(st, ui_id, default, new_state, pos, dim) ==
    [get_widget(st, ui_id, default) EXCEPT
        ![ui_id].state = new_state, ![ui_id].pos = pos, ![ui_id].dim = dim]

----------------------------------------------------------------------------
(* DropDownList: its states *)

\* Tuple / Callback params: Idx and Len are uint
DNormal == [tag |-> "Normal", idx |-> 0, len |-> 0]
DHighlighted(idx, len) == [tag |-> "Highlighted", idx |-> idx, len |-> len]
DClicked(idx, len) == [tag |-> "Clicked", idx |-> idx, len |-> len]
Closed(draw_state) == [menu |-> "Closed", draw |-> draw_state]
Open(draw_state) == [menu |-> "Open", draw |-> draw_state]

----------------------------------------------------------------------------
(* The locals of a draw, when the most recent draw was not of this kind *)

NoButtonDraw ==
    [drawn |-> FALSE, ui_id |-> 0, state |-> Normal, is_over |-> FALSE,
     left |-> Up, new_state |-> Normal, has_callback |-> FALSE, callbacks |-> 0]

NoDropDownDraw ==
    [drawn |-> FALSE, ui_id |-> 0, state |-> Closed(DNormal),
     is_over_idx |-> None, left |-> Up, len |-> 0, new_state |-> Closed(DNormal),
     selected |-> None, sel |-> None, has_callback |-> FALSE, has_label |-> FALSE,
     callbacks |-> 0, cb_idx |-> None, cb_label |-> None, lookups |-> << >>,
     panicked |-> FALSE]

----------------------------------------------------------------------------
(* Button *)

as_rectangle_state(s) ==
    CASE s = Normal -> RectNormal
      [] s = Highlighted -> RectHighlighted
      [] s = Clicked -> RectClicked

\* get_new_state without the drag-lock arm (false, Clicked, Down)
get_new_state_dragless(is_over, prev, m) ==
    IF is_over /\ prev = Normal /\ m.left = Down THEN Normal
    ELSE IF is_over /\ m.left = Down THEN Clicked
    ELSE IF is_over /\ m.left = Up THEN Highlighted
    ELSE Normal

\* get_new_state without the first arm: a press on a Normal button clicks it
get_new_state_eager(is_over, prev, m) ==
    IF is_over /\ m.left = Down THEN Clicked
    ELSE IF is_over /\ m.left = Up THEN Highlighted
    ELSE IF ~is_over /\ prev = Clicked /\ m.left = Down THEN Clicked
    ELSE Normal

\* the match of button.rs:41-47, arms in order, first match wins
get_new_state(is_over, prev, m) ==
    IF is_over /\ prev = Normal /\ m.left = Down THEN Normal
    ELSE IF is_over /\ m.left = Down THEN Clicked
    ELSE IF is_over /\ m.left = Up THEN Highlighted
    ELSE IF ~is_over /\ prev = Clicked /\ m.left = Down THEN Clicked
    ELSE Normal

\* the activation edge taken on the press instead of the release
button_callback_on_press(is_over, state, new_state) ==
    is_over /\ new_state = Clicked

\* the outer match of button.rs:107-111: the activation edge
button_callback_edge(is_over, state, new_state) ==
    is_over /\ state = Clicked /\ new_state = Highlighted

\* button.rs:101: the state read from the store
button_get_state(st, ui_id) == get_state(st, ui_id, ButtonDefault)

\* the draw returning without storing the new state
button_set_state_skipped(st, ui_id, new_state, pos, dim) ==
    get_widget(st, ui_id, ButtonDefault)

\* the new state stored under every button identity already seen
button_set_state_shared(st, ui_id, new_state, pos, dim) ==
    [id \in DOMAIN st |->
        IF id = ui_id
        THEN [ButtonDefault EXCEPT !.state = new_state, !.pos = pos, !.dim = dim]
        ELSE IF st[id].kind = "Button" THEN [st[id] EXCEPT !.state = new_state]
        ELSE st[id]]

\* button.rs:139: the new state stored under the button's identity
button_set_state(st, ui_id, new_state, pos, dim) ==
    set_state(st, ui_id, ButtonDefault, new_state, pos, dim)

\* ButtonContext::draw
ButtonDraw(ui_id, pos, dim, maybe_label, maybe_callback) ==
    /\ ~panicked
    /\ LET state == button_get_state(store, ui_id)
           is_over == rectangle_is_over(pos, mouse.pos, dim)
           new_state == get_new_state(is_over, state, mouse)
           callbacks == IF button_callback_edge(is_over, state, new_state)
                           /\ maybe_callback # None
                        THEN 1 ELSE 0
           rect_state == as_rectangle_state(new_state)
           call == IF maybe_label = None
                   THEN [fn |-> "draw", state |-> rect_state, text |-> None]
                   ELSE [fn |-> "draw_with_centered_label", state |-> rect_state,
                         text |-> maybe_label]
       IN /\ bdraw' = [drawn |-> TRUE, ui_id |-> ui_id, state |-> state,
                       is_over |-> is_over, left |-> mouse.left,
                       new_state |-> new_state,
                       has_callback |-> maybe_callback # None,
                       callbacks |-> callbacks]
          /\ gl' = <<call>>
          /\ store' = button_set_state(store, ui_id, new_state, pos, dim)
    /\ ddraw' = NoDropDownDraw
    /\ UNCHANGED <<mouse, strings, selected, panicked>>

----------------------------------------------------------------------------
(* DropDownList *)

\* DropDownList(State::Closed(DrawState::Normal))
DropDownListDefault ==
    [kind |-> "DropDownList", state |-> Closed(DNormal), pos |-> <<0, 0>>, dim |-> <<0, 0>>]

\* the geometry the caller gives the drop-down, and its labels
DropDownPositions == {<<0, 0>>}
DropDownDims == {<<2, 2>>}
Item(i) == <<"item", i>>
DropDownLabels == {<<"label">>}

\* what a supplied callback does with the selection slot it is handed
CallbackKinds == {"select", "keep"}

callback_write(kind, slot, idx) ==
    IF kind = "select" THEN Some(idx) ELSE slot

draw_state_as_rect_state(d) ==
    CASE d.tag = "Normal" -> RectNormal
      [] d.tag = "Highlighted" -> RectHighlighted
      [] d.tag = "Clicked" -> RectClicked

as_rect_state(state) == draw_state_as_rect_state(state.draw)

\* is_over of drop_down_list.rs: the row under the pointer, if any
ddl_is_over(pos, mouse_pos, dim, state, len) ==
    IF state.menu = "Closed"
    THEN IF rectangle_is_over(pos, mouse_pos, dim) THEN Some(0) ELSE None
    ELSE LET total_h == dim[2] * len
         IN IF rectangle_is_over(pos, mouse_pos, <<dim[1], total_h>>)
            THEN Some(((mouse_pos[2] - pos[2]) * len) \div total_h)
            ELSE None

\* get_new_state, the Closed arm (drop_down_list.rs:87-101) with the press
\* on a fresh closed list not suppressed
closed_new_state_eager(is_over_idx, len, d, m) ==
    IF is_over_idx # None
    THEN IF d.tag \in {"Normal", "Highlighted"} /\ m.left = Up
         THEN Closed(DHighlighted(0, len))
         ELSE IF m.left = Down THEN Closed(DClicked(0, len))
         ELSE Open(DNormal)
    ELSE Closed(DNormal)

\* get_new_state, the Closed arm (drop_down_list.rs:87-101)
closed_new_state(is_over_idx, len, d, m) ==
    IF is_over_idx # None
    THEN IF d.tag = "Normal" /\ m.left = Down THEN Closed(DNormal)
         ELSE IF d.tag \in {"Normal", "Highlighted"} /\ m.left = Up
              THEN Closed(DHighlighted(0, len))
         ELSE IF d.tag = "Highlighted" /\ m.left = Down
              THEN Closed(DClicked(0, len))
         ELSE IF d.tag = "Clicked" /\ m.left = Down
              THEN Closed(DClicked(0, len))
         ELSE Open(DNormal)
    ELSE Closed(DNormal)

\* get_new_state, the Open arm, with an open list closing whenever the
\* pointer is over none of its rows
open_new_state_collapse(is_over_idx, len, d, m) ==
    IF is_over_idx # None
    THEN LET idx == is_over_idx[1]
         IN IF d.tag = "Normal" /\ m.left = Down THEN Open(DNormal)
            ELSE IF d.tag \in {"Normal", "Highlighted"} /\ m.left = Up
                 THEN Open(DHighlighted(idx, len))
            ELSE IF d.tag = "Highlighted" /\ m.left = Down
                 THEN Open(DClicked(idx, len))
            ELSE IF d.tag = "Clicked" /\ m.left = Down
                 THEN Open(DClicked(d.idx, len))
            ELSE Closed(DNormal)
    ELSE Closed(DNormal)

\* get_new_state, the Open arm, with the clicked row following the pointer
open_new_state_follow(is_over_idx, len, d, m) ==
    IF is_over_idx # None
    THEN LET idx == is_over_idx[1]
         IN IF d.tag = "Normal" /\ m.left = Down THEN Open(DNormal)
            ELSE IF d.tag \in {"Normal", "Highlighted"} /\ m.left = Up
                 THEN Open(DHighlighted(idx, len))
            ELSE IF d.tag \in {"Highlighted", "Clicked"} /\ m.left = Down
                 THEN Open(DClicked(idx, len))
            ELSE Closed(DNormal)
    ELSE IF d.tag = "Highlighted" /\ m.left = Up
         THEN Open(DHighlighted(d.idx, len))
         ELSE Closed(DNormal)

\* get_new_state, the Open arm (drop_down_list.rs:102-121)
open_new_state(is_over_idx, len, d, m) ==
    IF is_over_idx # None
    THEN LET idx == is_over_idx[1]
         IN IF d.tag = "Normal" /\ m.left = Down THEN Open(DNormal)
            ELSE IF d.tag \in {"Normal", "Highlighted"} /\ m.left = Up
                 THEN Open(DHighlighted(idx, len))
            ELSE IF d.tag = "Highlighted" /\ m.left = Down
                 THEN Open(DClicked(idx, len))
            ELSE IF d.tag = "Clicked" /\ m.left = Down
                 THEN Open(DClicked(d.idx, len))
            ELSE Closed(DNormal)
    ELSE IF d.tag = "Highlighted" /\ m.left = Up
         THEN Open(DHighlighted(d.idx, len))
         ELSE Closed(DNormal)

\* get_new_state of drop_down_list.rs
ddl_get_new_state(is_over_idx, len, state, m) ==
    IF state.menu = "Closed"
    THEN closed_new_state(is_over_idx, len, state.draw, m)
    ELSE open_new_state(is_over_idx, len, state.draw, m)

\* drop_down_list.rs:184-187: the selection the draw works with
valid_selection(slot, len) ==
    IF slot # None /\ slot[1] < len THEN slot ELSE None

\* drop_down_list.rs:194-197: the commit edge
ddl_callback_edge(state, new_state) ==
    /\ state.menu = "Open"
    /\ new_state.menu = "Closed"
    /\ state.draw.tag = "Clicked"
    /\ new_state.draw.tag = "Normal"

\* the slot written on the commit edge even when no callback is supplied
selected_after_default(edge, callbacks, maybe_callback, slot, idx) ==
    IF callbacks = 1 THEN callback_write(maybe_callback[1], slot, idx)
    ELSE IF edge THEN Some(idx)
    ELSE slot

\* drop_down_list.rs:194-205: the selection slot after the callback match:
\* written by an invoked callback, by nothing else
selected_after(edge, callbacks, maybe_callback, slot, idx) ==
    IF callbacks = 1 THEN callback_write(maybe_callback[1], slot, idx) ELSE slot

\* the callback handed the label of the first item
callback_label_idx_first(idx) == 0

\* drop_down_list.rs:199: the index of the label handed to the callback
callback_label_idx(idx) == idx

\* drop_down_list.rs:217-223: the index of the item whose label the closed
\* row shows, None when the explicit label is shown
closed_label_idx(sel, maybe_label) ==
    IF sel # None THEN sel
    ELSE IF maybe_label # None THEN None
    ELSE Some(0)

\* the rows with the hovered or pressed row drawn as such even when selected
row_rect_state_hover_first(sel, draw_state, i) ==
    IF draw_state.tag = "Highlighted" /\ i = draw_state.idx THEN RectHighlighted
    ELSE IF sel # None /\ sel[1] = i THEN RectClicked
    ELSE IF draw_state.tag = "Clicked" /\ i = draw_state.idx THEN RectClicked
    ELSE RectNormal

\* drop_down_list.rs:233-263: the rectangle state of row i of the open list
row_rect_state(sel, draw_state, i) ==
    LET by_draw_state ==
            CASE draw_state.tag = "Normal" -> RectNormal
              [] draw_state.tag = "Highlighted" ->
                    IF i = draw_state.idx THEN RectHighlighted ELSE RectNormal
              [] draw_state.tag = "Clicked" ->
                    IF i = draw_state.idx THEN RectClicked ELSE RectNormal
    IN IF sel = None THEN by_draw_state
       ELSE IF sel[1] = i THEN RectClicked
       ELSE by_draw_state

\* the open list drawn as one row, its first
open_calls_first_row(strs, sel, draw_state) ==
    [n \in 1..(IF strs = << >> THEN 0 ELSE 1) |->
        [fn |-> "draw_with_centered_label",
         state |-> row_rect_state(sel, draw_state, n - 1),
         text |-> Some(strs[n])]]

\* drop_down_list.rs:232-271: one renderer call per item of the open list
open_calls(strs, sel, draw_state) ==
    [n \in 1..Len(strs) |->
        [fn |-> "draw_with_centered_label",
         state |-> row_rect_state(sel, draw_state, n - 1),
         text |-> Some(strs[n])]]

\* DropDownListContext::draw
DropDownListDraw(ui_id, pos, dim, maybe_label, maybe_callback) ==
    /\ ~panicked
    /\ LET state == get_state(store, ui_id, DropDownListDefault)
           len == Len(strings)
           is_over_idx == ddl_is_over(pos, mouse.pos, dim, state, len)
           new_state == ddl_get_new_state(is_over_idx, len, state, mouse)
           sel == valid_selection(selected, len)
           \* the callback arm: its label argument is looked up before the call
           cb_lookup == IF ddl_callback_edge(state, new_state) /\ maybe_callback # None
                        THEN <<callback_label_idx(state.draw.idx)>> ELSE << >>
           cb_panics == cb_lookup # << >> /\ ~(cb_lookup[1] < len)
           callbacks == IF cb_lookup # << >> /\ ~cb_panics THEN 1 ELSE 0
           cb_idx == IF callbacks = 1 THEN Some(state.draw.idx) ELSE None
           cb_label == IF callbacks = 1 THEN Some(strings[cb_lookup[1] + 1]) ELSE None
           slot == selected_after(ddl_callback_edge(state, new_state), callbacks,
                                  maybe_callback, selected, state.draw.idx)
           \* the closed row's label
           text_lookup == IF ~cb_panics /\ new_state.menu = "Closed"
                          THEN closed_label_idx(sel, maybe_label) ELSE None
           text_panics == text_lookup # None /\ ~(text_lookup[1] < len)
           panics == cb_panics \/ text_panics
           calls == IF panics THEN << >>
                    ELSE IF new_state.menu = "Closed"
                    THEN <<[fn |-> "draw_with_centered_label",
                            state |-> as_rect_state(new_state),
                            text |-> IF text_lookup = None THEN maybe_label
                                     ELSE Some(strings[text_lookup[1] + 1])]>>
                    ELSE open_calls(strings, sel, new_state.draw)
       IN /\ ddraw' = [drawn |-> TRUE, ui_id |-> ui_id, state |-> state,
                       is_over_idx |-> is_over_idx, left |-> mouse.left,
                       len |-> len, new_state |-> new_state,
                       selected |-> selected, sel |-> sel,
                       has_callback |-> maybe_callback # None,
                       has_label |-> maybe_label # None,
                       callbacks |-> callbacks, cb_idx |-> cb_idx,
                       cb_label |-> cb_label,
                       lookups |-> cb_lookup \o text_lookup,
                       panicked |-> panics]
          /\ selected' = slot
          /\ gl' = calls
          /\ panicked' = panics
          /\ store' = IF panics
                      THEN get_widget(store, ui_id, DropDownListDefault)
                      ELSE set_state(store, ui_id, DropDownListDefault, new_state, pos, dim)
    /\ bdraw' = NoButtonDraw
    /\ UNCHANGED <<mouse, strings>>

----------------------------------------------------------------------------
(* The environment of the widgets *)

\* a new frame begins: what the previous frame drew and computed is gone
NewFrame ==
    /\ gl' = << >>
    /\ bdraw' = NoButtonDraw
    /\ ddraw' = NoDropDownDraw

\* the input layer replaces the mouse snapshot of the UiContext
MouseInput ==
    /\ ~panicked
    /\ mouse' \in Mouse
    /\ NewFrame
    /\ UNCHANGED <<store, strings, selected, panicked>>

StringLists == {[n \in 1..k |-> Item(n - 1)] : k \in 0..MaxLen}

\* between frames the caller pushes items on its list or truncates it
SetStrings ==
    /\ ~panicked
    /\ strings' \in StringLists \ {strings}
    /\ NewFrame
    /\ UNCHANGED <<store, mouse, selected, panicked>>

\* between frames the caller writes its selection slot
SetSelected ==
    /\ ~panicked
    /\ selected' \in Option(0..MaxLen) \ {selected}
    /\ NewFrame
    /\ UNCHANGED <<store, mouse, strings, panicked>>

----------------------------------------------------------------------------
(* Initial state: a fresh UiContext, nothing drawn *)

\* no button evaluated yet
NoPress ==
    [armed |-> FALSE, was_armed |-> FALSE, fired |-> FALSE, had_fired |-> FALSE,
     pressed |-> FALSE, had_pressed |-> FALSE]

Fresh ==
    /\ store = [id \in UIID |-> NoWidget]
    /\ mouse \in Mouse
    /\ gl = << >>
    /\ bdraw = NoButtonDraw
    /\ ddraw = NoDropDownDraw
    /\ panicked = FALSE
    /\ hist = << >>
    /\ press = NoPress

NoScript == [step |-> 0, phase |-> "none", k |-> 0, calls |-> 0, g |-> << >>]

Init ==
    /\ Fresh
    /\ strings \in StringLists
    /\ selected = None
    /\ pc = NoScript

----------------------------------------------------------------------------
(* The button evaluated frame after frame *)

\* what hist keeps of an evaluation
Evaluation(bd) ==
    [state |-> bd.state, is_over |-> bd.is_over, left |-> bd.left,
     new_state |-> bd.new_state, callbacks |-> bd.callbacks]

Remember(h, e) ==
    IF Len(h) < HistLen THEN Append(h, e) ELSE Append(Tail(h), e)

\* press after the evaluation e that follows the evaluations h:
\*   armed    some earlier frame had the pointer over with the left button
\*            Up, the frame after it had the pointer over with the button
\*            Down, and the button has been Down in every frame since;
\*   fired    the callback has been invoked in this frame or an earlier one;
\*   pressed  a frame since the last invocation had the pointer over with
\*            the button Down;
\*   was_armed, had_fired, had_pressed: the same before e.
Track(p, h, e) ==
    LET begins == /\ h # << >>
                  /\ h[Len(h)].is_over /\ h[Len(h)].left = Up
                  /\ e.is_over /\ e.left = Down
    IN [armed |-> e.left = Down /\ (p.armed \/ begins),
        was_armed |-> p.armed,
        fired |-> p.fired \/ e.callbacks = 1,
        had_fired |-> p.fired,
        pressed |-> e.callbacks = 0 /\ (p.pressed \/ (e.is_over /\ e.left = Down)),
        had_pressed |-> p.pressed]

ButtonFrame ==
    /\ \E ui_id \in ButtonIds, pos \in ButtonPositions, dim \in ButtonDims,
          maybe_label \in Option(ButtonLabels), maybe_callback \in Option({"cb"}) :
          ButtonDraw(ui_id, pos, dim, maybe_label, maybe_callback)
    /\ hist' = Remember(hist, Evaluation(bdraw'))
    /\ press' = Track(press, hist, Evaluation(bdraw'))
    /\ UNCHANGED pc

ButtonMouse == MouseInput /\ UNCHANGED <<hist, pc, press>>

InitButton == Init /\ strings = << >>

NextButton == ButtonMouse \/ ButtonFrame

SpecButton == InitButton /\ [][NextButton]_vars

----------------------------------------------------------------------------
(* The drop-down evaluated frame after frame, its caller editing the list  *)
(* and the selection slot between frames                                   *)

DropDownFrame ==
    /\ \E ui_id \in DropDownIds, pos \in DropDownPositions, dim \in DropDownDims,
          maybe_label \in Option(DropDownLabels),
          maybe_callback \in Option(CallbackKinds) :
          DropDownListDraw(ui_id, pos, dim, maybe_label, maybe_callback)
    /\ UNCHANGED <<hist, pc, press>>

DropDownMouse == MouseInput /\ UNCHANGED <<hist, pc, press>>

DropDownStrings == SetStrings /\ UNCHANGED <<hist, pc, press>>

DropDownSelected == SetSelected /\ UNCHANGED <<hist, pc, press>>

NextDropDown == DropDownMouse \/ DropDownStrings \/ DropDownSelected \/ DropDownFrame

SpecDropDown == Init /\ [][NextDropDown]_vars

----------------------------------------------------------------------------
(* The selection scenario: six frames on a fresh drop-down with a non-empty,
   unchanged list: hover, press, release (the list opens), hover row k,
   press on row k, release over the list *)

ScriptGeometry == [pos : DropDownPositions, dim : DropDownDims]

\* the pointer is inside the closed row
OverClosedRow(g, m) ==
    /\ g.pos[1] < m.pos[1] /\ m.pos[1] < g.pos[1] + g.dim[1]
    /\ g.pos[2] < m.pos[2] /\ m.pos[2] < g.pos[2] + g.dim[2]

\* the pointer is inside row j of the open list
OverRow(g, m, j) ==
    /\ g.pos[1] < m.pos[1] /\ m.pos[1] < g.pos[1] + g.dim[1]
    /\ g.pos[2] + j * g.dim[2] < m.pos[2]
    /\ m.pos[2] < g.pos[2] + (j + 1) * g.dim[2]

\* the pointer is inside the stacked rows of the open list
OverList(g, m, count) ==
    /\ g.pos[1] < m.pos[1] /\ m.pos[1] < g.pos[1] + g.dim[1]
    /\ g.pos[2] < m.pos[2] /\ m.pos[2] < g.pos[2] + count * g.dim[2]

\* the mouse snapshot frame n of the scenario asks for
ScriptMouse(n, m) ==
    CASE n = 1 -> OverClosedRow(pc.g, m) /\ m.left = Up
      [] n = 2 -> OverClosedRow(pc.g, m) /\ m.left = Down
      [] n = 3 -> OverClosedRow(pc.g, m) /\ m.left = Up
      [] n = 4 -> OverRow(pc.g, m, pc.k) /\ m.left = Up
      [] n = 5 -> OverRow(pc.g, m, pc.k) /\ m.left = Down
      [] n = 6 -> OverList(pc.g, m, Len(strings)) /\ m.left = Up

InitSelect ==
    /\ Fresh
    /\ strings \in StringLists \ {<< >>}
    /\ selected \in Option(0..MaxLen)
    /\ \E k \in 0..(Len(strings) - 1), g \in ScriptGeometry :
          pc = [step |-> 0, phase |-> "input", k |-> k, calls |-> 0, g |-> g]

SelectInput ==
    /\ pc.phase = "input" /\ pc.step < 6
    /\ MouseInput
    /\ ScriptMouse(pc.step + 1, mouse')
    /\ pc' = [pc EXCEPT !.phase = "draw"]
    /\ UNCHANGED <<hist, press>>

SelectFrame ==
    /\ pc.phase = "draw"
    /\ \E ui_id \in DropDownIds, maybe_label \in Option(DropDownLabels),
          maybe_callback \in Option(CallbackKinds) :
          DropDownListDraw(ui_id, pc.g.pos, pc.g.dim, maybe_label, maybe_callback)
    /\ pc' = [pc EXCEPT !.phase = "input", !.step = @ + 1,
                        !.calls = @ + ddraw'.callbacks]
    /\ UNCHANGED <<hist, press>>

NextSelect == SelectInput \/ SelectFrame

SpecSelect == InitSelect /\ [][NextSelect]_vars

----------------------------------------------------------------------------
(* Two buttons and a drop-down in one UiContext, evaluated in any order and
   any number of times between two mouse snapshots; the pointer moves up and
   down the column that crosses the widgets, the item list is the caller's
   and stays as it is, and the callbacks leave the selection slot alone *)

InitWidgets == Init /\ mouse.pos[1] = 1

WidgetsMouse ==
    /\ MouseInput
    /\ mouse'.pos[1] = 1
    /\ UNCHANGED <<hist, pc, press>>

WidgetsButton ==
    /\ \E ui_id \in ButtonIds \cup MoreButtonIds,
          pos \in ButtonPositions, dim \in ButtonDims,
          maybe_label \in Option(ButtonLabels), maybe_callback \in {Some("cb")} :
          ButtonDraw(ui_id, pos, dim, maybe_label, maybe_callback)
    /\ UNCHANGED <<hist, pc, press>>

WidgetsDropDown ==
    /\ \E ui_id \in DropDownIds, pos \in DropDownPositions, dim \in DropDownDims,
          maybe_label \in Option(DropDownLabels),
          maybe_callback \in Option({"keep"}) :
          DropDownListDraw(ui_id, pos, dim, maybe_label, maybe_callback)
    /\ UNCHANGED <<hist, pc, press>>

NextWidgets == WidgetsMouse \/ WidgetsButton \/ WidgetsDropDown

SpecWidgets == InitWidgets /\ [][NextWidgets]_vars

----------------------------------------------------------------------------
(* Claims about the button, checked under SpecButton *)

\* the transition table of the button as the specification words it
ButtonTable(over, prev, left) ==
    CASE over /\ prev = Normal /\ left = Down -> Normal
      [] over /\ prev \in {Highlighted, Clicked} /\ left = Down -> Clicked
      [] over /\ left = Up -> Highlighted
      [] ~over /\ prev = Clicked /\ left = Down -> Clicked
      [] OTHER -> Normal

\* C1: get_new_state is total and equals the ordered table: for every
\* (is_over, prev, left) the result is a button state, the one the table
\* gives, and every evaluation of a button stores what the table gives.
C1_TransitionTable ==
    /\ \A over \in BOOLEAN, prev \in State, left \in ButtonState :
          /\ get_new_state(over, prev, [pos |-> <<0, 0>>, left |-> left]) \in State
          /\ get_new_state(over, prev, [pos |-> <<0, 0>>, left |-> left])
                = ButtonTable(over, prev, left)
    /\ bdraw.drawn =>
          bdraw.new_state = ButtonTable(bdraw.is_over, bdraw.state, bdraw.left)

\* an evaluation that took the drag-lock row of the table
C1_Witness ==
    /\ bdraw.drawn
    /\ ~bdraw.is_over /\ bdraw.state = Clicked /\ bdraw.left = Down
    /\ bdraw.new_state = Clicked

\* C2: in an evaluation with a callback supplied the callback is invoked iff
\* the pointer is over the button, the state read is Clicked and the new
\* state is Highlighted; at most once; never with the left button Down
\* (press, drag) and never while the pointer is not over the button.
C2_CallbackEdge ==
    bdraw.drawn =>
        /\ bdraw.callbacks \in {0, 1}
        /\ bdraw.has_callback =>
              (bdraw.callbacks = 1 <=>
                  bdraw.is_over /\ bdraw.state = Clicked /\ bdraw.new_state = Highlighted)
        /\ ~bdraw.has_callback => bdraw.callbacks = 0
        /\ bdraw.left = Down => bdraw.callbacks = 0
        /\ ~bdraw.is_over => bdraw.callbacks = 0

\* an evaluation that invoked the callback
C2_Witness == bdraw.drawn /\ bdraw.callbacks = 1 /\ bdraw.left = Up /\ bdraw.is_over

\* the three most recent evaluations are press, hold and release-while-hover,
\* the release evaluated with a callback supplied
PressHoldRelease ==
    /\ Len(hist) >= 3
    /\ bdraw.drawn /\ bdraw.has_callback
    /\ LET n == Len(hist)
       IN /\ hist[n - 2].is_over /\ hist[n - 2].left = Down
          /\ hist[n - 1].is_over /\ hist[n - 1].left = Down
          /\ hist[n].is_over /\ hist[n].left = Up

Fired(k) == hist[Len(hist) - 3 + k].callbacks

\* C3 as claimed: from any prior state, press, hold, release-while-hover
\* fires the callback exactly once, on the third frame.
C3_FromAnyState ==
    PressHoldRelease => Fired(1) = 0 /\ Fired(2) = 0 /\ Fired(3) = 1

\* C3 amended: from a prior state Highlighted or Clicked, press, hold,
\* release-while-hover fires the callback exactly once, on the third frame;
\* from the prior state Normal it fires in none of the three frames.
C3_FromHoveredState ==
    PressHoldRelease =>
        /\ Fired(1) = 0 /\ Fired(2) = 0
        /\ hist[Len(hist) - 2].state \in {Highlighted, Clicked} => Fired(3) = 1
        /\ hist[Len(hist) - 2].state = Normal => Fired(3) = 0

\* press, hold, release on a button that was hovered first
C3_Witness ==
    /\ PressHoldRelease
    /\ hist[Len(hist) - 2].state = Highlighted
    /\ Fired(3) = 1

\* C4: drag-lock. An evaluation that reads Clicked with the pointer outside
\* and the left button Down stores Clicked and fires no callback; the state
\* leaves Clicked only in an evaluation with the left button Up, for Normal
\* if the pointer is outside and Highlighted if it is over; and each
\* evaluation reads the state the previous one stored.
C4_DragLock ==
    /\ \A i \in 1..Len(hist) :
          hist[i].state = Clicked =>
              /\ ~hist[i].is_over /\ hist[i].left = Down =>
                    hist[i].new_state = Clicked /\ hist[i].callbacks = 0
              /\ hist[i].new_state # Clicked => hist[i].left = Up
              /\ hist[i].left = Up =>
                    hist[i].new_state = IF hist[i].is_over THEN Highlighted ELSE Normal
    /\ \A i \in 1..(Len(hist) - 1) : hist[i + 1].state = hist[i].new_state
    /\ hist # << >> =>
          \A id \in ButtonIds : store[id].state = hist[Len(hist)].new_state

\* a pressed button dragged off for two frames and released outside
C4_Witness ==
    /\ Len(hist) >= 3
    /\ LET n == Len(hist)
       IN /\ hist[n - 2].state = Clicked
          /\ ~hist[n - 2].is_over /\ hist[n - 2].left = Down
          /\ ~hist[n - 1].is_over /\ hist[n - 1].left = Down
          /\ hist[n - 1].new_state = Clicked
          /\ ~hist[n].is_over /\ hist[n].left = Up /\ hist[n].new_state = Normal

----------------------------------------------------------------------------
(* Claims about the drop-down, checked under SpecDropDown *)

\* C5: in an evaluation that runs to completion, a supplied callback is
\* invoked exactly when the state read is Open(Clicked(idx,_)) and the new
\* state is Closed(Normal), and every invocation happens with the left
\* button Up and the pointer over a row of the open list.
C5_CallbackOnReleaseOverRow ==
    (ddraw.drawn /\ ~ddraw.panicked /\ ddraw.has_callback) =>
        /\ ddraw.callbacks = 1 <=>
              /\ ddraw.state.menu = "Open" /\ ddraw.state.draw.tag = "Clicked"
              /\ ddraw.new_state = Closed(DNormal)
        /\ ddraw.callbacks = 1 => ddraw.left = Up /\ ddraw.is_over_idx # None

\* C7: with an empty item list, in an evaluation that runs to completion the
\* hit test returns None from every stored state and the new state is not
\* Open.
C7_EmptyListNeverHit ==
    (ddraw.drawn /\ ~ddraw.panicked /\ ddraw.len = 0) =>
        /\ ddraw.is_over_idx = None
        /\ ddraw.new_state.menu # "Open"

\* C8: every lookup of an item label made by an evaluation uses an index
\* smaller than the current item count.
C8_LookupsInRange ==
    ddraw.drawn => \A n \in 1..Len(ddraw.lookups) : ddraw.lookups[n] < ddraw.len

\* the rectangle state the DrawState alone gives row i
ByDrawState(d, i) ==
    IF d.tag = "Highlighted" /\ d.idx = i THEN RectHighlighted
    ELSE IF d.tag = "Clicked" /\ d.idx = i THEN RectClicked
    ELSE RectNormal

\* C9: in every frame drawn Open one row is drawn per item; if the selection
\* slot holds Some(idx) with idx < item count, row idx is drawn Clicked
\* whatever the DrawState; if it holds None or an index out of range, every
\* row is drawn as the DrawState alone gives it.
C9_SelectedRowClicked ==
    (ddraw.drawn /\ ~ddraw.panicked /\ ddraw.new_state.menu = "Open") =>
        /\ Len(gl) = ddraw.len
        /\ IF ddraw.selected # None /\ ddraw.selected[1] < ddraw.len
           THEN gl[ddraw.selected[1] + 1].state = RectClicked
           ELSE \A i \in 0..(ddraw.len - 1) :
                   gl[i + 1].state = ByDrawState(ddraw.new_state.draw, i)

\* an open list whose selected row is not the highlighted row
C9_Witness ==
    /\ ddraw.drawn /\ ~ddraw.panicked
    /\ ddraw.new_state.menu = "Open"
    /\ ddraw.new_state.draw.tag = "Highlighted"
    /\ ddraw.selected # None /\ ddraw.selected[1] < ddraw.len
    /\ ddraw.selected[1] # ddraw.new_state.draw.idx
    /\ gl[ddraw.selected[1] + 1].state = RectClicked
    /\ gl[ddraw.new_state.draw.idx + 1].state = RectHighlighted

\* the button state a DrawState stands for, and back
AsButton(d) == d.tag
AsClosed(b, count) ==
    CASE b = Normal -> Closed(DNormal)
      [] b = Highlighted -> Closed(DHighlighted(0, count))
      [] b = Clicked -> Closed(DClicked(0, count))

DrawStates ==
    {DNormal} \cup {DHighlighted(i, l) : i \in 0..MaxLen, l \in 0..MaxLen}
              \cup {DClicked(i, l) : i \in 0..MaxLen, l \in 0..MaxLen}

\* the Closed transitions as the button FSM with the one exception claimed
MirrorsButton(over_idx, count, d, left) ==
    ddl_get_new_state(over_idx, count, Closed(d), [pos |-> <<0, 0>>, left |-> left])
        = IF over_idx # None /\ d.tag = "Clicked" /\ left = Up
          THEN Open(DNormal)
          ELSE AsClosed(get_new_state(over_idx # None, AsButton(d),
                                      [pos |-> <<0, 0>>, left |-> left]), count)

\* C10 as claimed: from Closed(d) the drop-down's new state is the button
\* FSM's result under the mapping, except that (over, Clicked, Up) opens.
C10_ClosedMirrorsButton ==
    (ddraw.drawn /\ ddraw.state.menu = "Closed") =>
        MirrorsButton(ddraw.is_over_idx, ddraw.len, ddraw.state.draw, ddraw.left)
        /\ ddraw.new_state
              = ddl_get_new_state(ddraw.is_over_idx, ddraw.len, ddraw.state,
                                  [pos |-> <<0, 0>>, left |-> ddraw.left])

\* C10 amended: as claimed, with a second exception: (not over, Clicked,
\* Down) yields Closed(Normal) where the button FSM stays Clicked.
C10_ClosedMirrorsButtonButDragLock ==
    /\ (\A id \in DropDownIds : store[id] = NoWidget) =>
       \A over_idx \in Option(0..MaxLen), count \in 0..MaxLen,
          d \in DrawStates, left \in ButtonState :
           IF over_idx = None /\ d.tag = "Clicked" /\ left = Down
           THEN ddl_get_new_state(over_idx, count, Closed(d),
                                  [pos |-> <<0, 0>>, left |-> left]) = Closed(DNormal)
           ELSE MirrorsButton(over_idx, count, d, left)
    /\ (ddraw.drawn /\ ddraw.state.menu = "Closed") =>
          ddraw.new_state
              = IF ddraw.is_over_idx = None
                THEN Closed(DNormal)
                ELSE IF ddraw.state.draw.tag = "Clicked" /\ ddraw.left = Up
                THEN Open(DNormal)
                ELSE AsClosed(get_new_state(TRUE, AsButton(ddraw.state.draw),
                                            [pos |-> <<0, 0>>, left |-> ddraw.left]),
                              ddraw.len)

\* a pressed closed drop-down dragged off with the button held
C10_Witness ==
    /\ ddraw.drawn
    /\ ddraw.state.menu = "Closed" /\ ddraw.state.draw.tag = "Clicked"
    /\ ddraw.is_over_idx = None /\ ddraw.left = Down
    /\ ddraw.new_state = Closed(DNormal)

----------------------------------------------------------------------------
(* Claim about the selection scenario, checked under SpecSelect *)

\* C6: on a drop-down with a non-empty, unchanged item list starting in
\* Closed(Normal), the six frames hover, press, release, hover row k, press
\* on row k, release over the list all run to completion; with a callback
\* supplied in the last frame it is invoked exactly once in the sequence, in
\* the last frame, with index k and the label of row k, and the stored state
\* is Closed(Normal) after it.
C6_SelectRow ==
    /\ ~panicked
    /\ (pc.step < 6 \/ pc.phase = "draw") => pc.calls = 0
    /\ (pc.step = 6 /\ ddraw.has_callback) =>
          /\ pc.calls = 1
          /\ ddraw.callbacks = 1
          /\ ddraw.cb_idx = Some(pc.k)
          /\ ddraw.cb_label = Some(strings[pc.k + 1])
    /\ pc.step = 6 => \A id \in DropDownIds : store[id].state = Closed(DNormal)

\* the scenario run to its end on the second row, released over the first
C6_Witness ==
    /\ pc.step = 6 /\ pc.k = 1
    /\ ddraw.has_callback /\ ddraw.callbacks = 1
    /\ ddraw.cb_idx = Some(1) /\ ddraw.cb_label = Some(Item(1))
    /\ ddraw.is_over_idx = Some(0)

----------------------------------------------------------------------------
(* Claims about the open drop-down, checked under SpecDropDown *)

\* the Open transitions as the two tables: hovering row r of n, hovering
\* nothing
OpenTable(over_idx, n, d, left) ==
    IF over_idx # None
    THEN LET r == over_idx[1]
         IN CASE d.tag = "Normal" /\ left = Down -> Open(DNormal)
              [] d.tag = "Normal" /\ left = Up -> Open(DHighlighted(r, n))
              [] d.tag = "Highlighted" /\ left = Up -> Open(DHighlighted(r, n))
              [] d.tag = "Highlighted" /\ left = Down -> Open(DClicked(r, n))
              [] d.tag = "Clicked" /\ left = Down -> Open(DClicked(d.idx, n))
              [] d.tag = "Clicked" /\ left = Up -> Closed(DNormal)
    ELSE CASE d.tag = "Highlighted" /\ left = Up -> Open(DHighlighted(d.idx, n))
           [] OTHER -> Closed(DNormal)

\* C11: from an Open state the new state is the one of the two tables, for
\* every hovered row or none, item count, draw state and left button: in
\* every evaluation that reads an Open state, and of get_new_state on every
\* input; an open list with row p highlighted, the pointer outside and the
\* button Up stays Open(Highlighted(p, n)), and that state is stored.
C11_OpenTable ==
    /\ (\A id \in DropDownIds : store[id] = NoWidget) =>
       \A over_idx \in Option(0..MaxLen), n \in 0..MaxLen,
          d \in DrawStates, left \in ButtonState :
           ddl_get_new_state(over_idx, n, Open(d), [pos |-> <<0, 0>>, left |-> left])
               = OpenTable(over_idx, n, d, left)
    /\ (ddraw.drawn /\ ddraw.state.menu = "Open") =>
          /\ ddraw.new_state
                = OpenTable(ddraw.is_over_idx, ddraw.len, ddraw.state.draw, ddraw.left)
          /\ (ddraw.state.draw.tag = "Highlighted" /\ ddraw.is_over_idx = None
                /\ ddraw.left = Up) =>
                /\ ddraw.new_state
                      = Open(DHighlighted(ddraw.state.draw.idx, ddraw.len))
                /\ ~ddraw.panicked => store[ddraw.ui_id].state = ddraw.new_state

\* an open list, its second row highlighted, evaluated with the pointer
\* outside and the button Up, and left open
C11_Witness ==
    /\ ddraw.drawn /\ ~ddraw.panicked
    /\ ddraw.state.menu = "Open" /\ ddraw.state.draw.tag = "Highlighted"
    /\ ddraw.state.draw.idx = 1
    /\ ddraw.is_over_idx = None /\ ddraw.left = Up
    /\ store[ddraw.ui_id].state = Open(DHighlighted(1, ddraw.len))

\* C12: an evaluation that reads Open(Highlighted) with the button Down
\* over row r stores Open(Clicked(r, _)); every evaluation that reads
\* Open(Clicked(r, _)) with the button Down and the pointer over any row
\* computes Open(Clicked(r, _)) and stores it; and a callback invoked on
\* the commit edge receives the row r of the state read, whatever row the
\* pointer is over in that frame.
C12_StickyRow ==
    (ddraw.drawn /\ ddraw.state.menu = "Open") =>
        /\ (ddraw.state.draw.tag = "Highlighted" /\ ddraw.left = Down
              /\ ddraw.is_over_idx # None) =>
              ddraw.new_state = Open(DClicked(ddraw.is_over_idx[1], ddraw.len))
        /\ (ddraw.state.draw.tag = "Clicked" /\ ddraw.left = Down
              /\ ddraw.is_over_idx # None) =>
              /\ ddraw.new_state = Open(DClicked(ddraw.state.draw.idx, ddraw.len))
              /\ ~ddraw.panicked => store[ddraw.ui_id].state = ddraw.new_state
        /\ ddraw.callbacks = 1 =>
              /\ ddraw.state.draw.tag = "Clicked"
              /\ ddraw.cb_idx = Some(ddraw.state.draw.idx)

\* a press that began on the second row, held with the pointer over the
\* first row: the second row is still the clicked one
C12_Witness ==
    /\ ddraw.drawn /\ ~ddraw.panicked
    /\ ddraw.state.menu = "Open" /\ ddraw.state.draw.tag = "Clicked"
    /\ ddraw.state.draw.idx = 1
    /\ ddraw.left = Down /\ ddraw.is_over_idx = Some(0)
    /\ store[ddraw.ui_id].state = Open(DClicked(1, ddraw.len))

\* C16: the selection slot after an evaluation of the drop-down differs
\* from the slot before it only if the evaluation invoked the callback, on
\* the commit edge; an evaluation without a callback leaves the slot as it
\* was, on the commit edge too.
C16_SlotWrittenByCallbackOnly ==
    ddraw.drawn =>
        /\ selected # ddraw.selected =>
              /\ ddraw.callbacks = 1
              /\ ddl_callback_edge(ddraw.state, ddraw.new_state)
        /\ ~ddraw.has_callback => selected = ddraw.selected

\* the commit edge on the second row evaluated without a callback, the
\* slot left selecting the first row
C16_Witness ==
    /\ ddraw.drawn /\ ~ddraw.panicked /\ ~ddraw.has_callback
    /\ ddl_callback_edge(ddraw.state, ddraw.new_state)
    /\ ddraw.state.draw.idx = 1
    /\ ddraw.selected = Some(0) /\ selected = Some(0)

\* C18: whenever is_over returns Some(row), 0 <= row < itemCount, in the
\* Closed state and in the Open state.
C18_HitRowInRange ==
    (ddraw.drawn /\ ddraw.is_over_idx # None) =>
        0 <= ddraw.is_over_idx[1] /\ ddraw.is_over_idx[1] < ddraw.len

----------------------------------------------------------------------------
(* Claims about successive evaluations of one button, checked under
   SpecButton *)

\* C13: the state an evaluation of the button reads is the new state the
\* evaluation before it computed, and the store holds the new state of the
\* last one; a button never evaluated reads as Normal, and so does its
\* first evaluation; a first frame with the pointer over and the button Up
\* computes Highlighted, and the frame after it, over with the button Down,
\* reads Highlighted and computes Clicked.
C13_StoredStateCarried ==
    /\ \A i \in 1..(Len(hist) - 1) : hist[i + 1].state = hist[i].new_state
    /\ \A id \in ButtonIds :
          button_get_state(store, id)
              = IF hist = << >> THEN Normal ELSE hist[Len(hist)].new_state
    /\ (hist # << >> /\ Len(hist) < HistLen) => hist[1].state = Normal
    /\ (Len(hist) = 2 /\ hist[1].is_over /\ hist[1].left = Up
          /\ hist[2].is_over /\ hist[2].left = Down) =>
          /\ hist[1].new_state = Highlighted
          /\ hist[2].state = Highlighted
          /\ hist[2].new_state = Clicked

\* the first two evaluations of the button: hover, then press
C13_Witness ==
    /\ Len(hist) = 2
    /\ hist[1].state = Normal /\ hist[1].is_over /\ hist[1].left = Up
    /\ hist[2].state = Highlighted /\ hist[2].is_over /\ hist[2].left = Down
    /\ \A id \in ButtonIds : button_get_state(store, id) = Clicked

\* C19: an evaluation that reads Normal with the button Down computes
\* Normal and invokes no callback, the pointer over the button or not; and
\* whenever the callback is invoked in a frame t, some frame s < t had the
\* pointer over with the button Up, frame s + 1 had the pointer over with
\* the button Down, and the button was Down in every frame from s + 1 to
\* t - 1.
C19_PressSuppression ==
    /\ \A i \in 1..Len(hist) :
          (hist[i].state = Normal /\ hist[i].left = Down) =>
              hist[i].new_state = Normal /\ hist[i].callbacks = 0
    /\ (hist # << >> /\ hist[Len(hist)].callbacks = 1) => press.was_armed

\* a callback invoked after the button was held for two frames or more,
\* the pointer dragged off it meanwhile
C19_Witness ==
    /\ Len(hist) = HistLen
    /\ hist[1].state = Clicked /\ hist[1].left = Down
    /\ ~hist[2].is_over /\ hist[2].left = Down
    /\ hist[3].callbacks = 1
    /\ press.was_armed

\* C20: the callback is not invoked in two successive evaluations, and
\* when it is invoked again, some frame since the invocation before had the
\* pointer over with the button Down.
C20_NoRefire ==
    /\ \A i \in 1..(Len(hist) - 1) :
          ~(hist[i].callbacks = 1 /\ hist[i + 1].callbacks = 1)
    /\ (hist # << >> /\ hist[Len(hist)].callbacks = 1 /\ press.had_fired) =>
          press.had_pressed

\* the callback invoked for the second time, two frames after the first
C20_Witness ==
    /\ Len(hist) = HistLen
    /\ hist[1].callbacks = 1
    /\ hist[2].is_over /\ hist[2].left = Down
    /\ hist[3].callbacks = 1
    /\ press.had_fired /\ press.had_pressed

----------------------------------------------------------------------------
(* Claims about the store and the renderer, checked under SpecWidgets *)

C15_OnlyOwnEntry ==
    [][\A id \in UIID :
          store'[id] # store[id] =>
              \/ bdraw'.drawn /\ bdraw'.ui_id = id
              \/ ddraw'.drawn /\ ddraw'.ui_id = id]_vars

\* the second button evaluated and Highlighted, the first still Clicked and
\* the drop-down still open from their own evaluations
C15_Witness ==
    /\ bdraw.drawn /\ bdraw.ui_id \in MoreButtonIds
    /\ bdraw.state = Normal /\ bdraw.new_state = Highlighted
    /\ \A id \in ButtonIds : store[id].state = Clicked
    /\ \A id \in DropDownIds :
          store[id].kind = "DropDownList" /\ store[id].state.menu = "Open"

\* C17 as claimed: every evaluation makes exactly one call to the renderer.
C17_OneRendererCall ==
    (bdraw.drawn \/ ddraw.drawn) => Len(gl) = 1

\* C17: an evaluation of a button makes exactly one call to the renderer,
\* rectangle draw without a label and draw-with-centered-label with one; an
\* evaluation of a drop-down that runs to its end makes one
\* draw-with-centered-label call when its new state is Closed and one per
\* item, none for an empty list, when its new state is Open; an evaluation
\* of a drop-down that panics makes none.
C17_RendererCalls ==
    /\ bdraw.drawn =>
          /\ Len(gl) = 1
          /\ gl[1].fn = IF gl[1].text = None THEN "draw"
                        ELSE "draw_with_centered_label"
    /\ ddraw.drawn =>
          /\ Len(gl) = IF ddraw.panicked THEN 0
                       ELSE IF ddraw.new_state.menu = "Closed" THEN 1
                       ELSE ddraw.len
          /\ \A n \in 1..Len(gl) : gl[n].fn = "draw_with_centered_label"

\* an open list of two items drawn: two calls
C17_Witness ==
    /\ ddraw.drawn /\ ~ddraw.panicked
    /\ ddraw.new_state.menu = "Open" /\ ddraw.len = 2
    /\ Len(gl) = 2

====
